---- MODULE Spec2Model ----
(***************************************************************************)
(* Model of pagerduty-mtta-analysis.py: the row loop of                    *)
(* fetch_and_update_pagerduty_metrics, process_row, and the retry loop of  *)
(* make_api_request.                                                       *)
(*                                                                         *)
(* Cell values are records [kind, num]: kind "none" is Python None (an     *)
(* empty cell), "str" is the empty string "", "text" a non-empty string,   *)
(* "num" a number kept in hundredths (0.00 format, so 2.08 is 208).        *)
(* Optional Python values (start_row, end_row, minutes_value, the mean     *)
(* seconds) are sequences: <<>> is None and <<n>> is the value n.          *)
(* retry_delay is in whole seconds; the durations of sleeps are in tenths   *)
(* of a second (the default delay of 2.5 s is 25).                         *)
(***************************************************************************)
EXTENDS Integers, Sequences, FiniteSets, TLC

\* ------------------------------------------------------------------ bounds

\* sheet.max_row of the modelled workbook: the data rows are 2..MaxRow.
MaxRow == 3

\* ---------------------------------------------------------------- constants

max_retries == 7

InitialRetryDelay == 3

MaxRetryDelay == 120

\* The delay parameter (default 2.5 s), in tenths of a second.
delay == 25

\* ------------------------------------------------------------------- values

None == <<>>

Some(n) == <<n>>

NoneCell == [kind |-> "none", num |-> 0]

EmptyString == [kind |-> "str", num |-> 0]

Text == [kind |-> "text", num |-> 0]

Num(n) == [kind |-> "num", num |-> n]

\* Values a target-month cell can hold before the run.
MonthValues == {NoneCell, EmptyString, Num(0), Num(250)}

\* Values an id cell can hold.
IdValues == {NoneCell, Text}

Rows == 2..MaxRow

\* start_row / end_row as argparse (type=int, default None) can deliver them.
RowArgs == {None} \cup {Some(n) : n \in 0..(MaxRow + 1)}

\* mean_seconds_to_first_ack values a real response can carry.
ApiSeconds == {0, 100}

\* total_incident_count values a real response can carry.
ApiCounts == {7}

\* Samples of random.randint(5, 20): both ends of the interval.
MockCounts == {5, 20}

\* Samples of random.uniform(0, 2), in tenths of a second.
JitterTenths == {0, 10, 20}

\* Seconds an integer Retry-After header can ask for.
RetryAfterSeconds == {30}

\* Samples of random.randint(120, 7200): both ends of the interval.
MockSeconds == {120, 7200}

\* Response bodies of a request that was answered without an HTTP error:
\* the data key missing, data an empty array, data[0] without (or with a
\* null) mean_seconds_to_first_ack, data[0] with a number.
Bodies == {[data |-> "missing", mean |-> None, count |-> None],
           [data |-> "empty", mean |-> None, count |-> None]}
          \cup {[data |-> "row", mean |-> None, count |-> Some(c)] :
                   c \in ApiCounts}
          \cup {[data |-> "row", mean |-> Some(s), count |-> Some(c)] :
                   s \in ApiSeconds, c \in ApiCounts}

\* The bodies the mock branch builds.
MockBodies == {[data |-> "row", mean |-> Some(s), count |-> Some(c)] :
                 s \in MockSeconds, c \in MockCounts}

\* No body: make_api_request has not returned.
NoBody == [data |-> "none", mean |-> None, count |-> None]

\* No attempt made yet by the current make_api_request call.
NoAttempt == [outcome |-> "none", header |-> "none", throttle |-> None,
              wait |-> None]

\* Status classes of a response: 200, another status below 400 (201, 204,
\* ...), 429, and the other 4xx/5xx statuses.
OkStatuses == {"200", "2xx"}

\* Retry-After header of a 429 response: missing, an integer, not an integer.
RetryAfterHeaders == {"missing", "int", "text"}

\* --------------------------------------------------------------- operators

\* Python truthiness of a cell value / of an optional int.
Truthy(c) == c.kind = "text" \/ (c.kind = "num" /\ c.num # 0)

TruthyInt(o) == o # None /\ o[1] # 0

Min(a, b) == IF a < b THEN a ELSE b

\* round(seconds / 60, 2) in hundredths of a minute. seconds*100/60 has
\* fractional part 0, 1/3 or 2/3, so rounding to nearest is floor(x + 1/2).
seconds_to_minutes(seconds) ==
    IF seconds = None THEN None
    ELSE Some((10 * seconds[1] + 3) \div 6)

\* A missing mean taken for 0 seconds.
MutExtractMeanZero(body) ==
    IF body.data = "row" /\ body.mean # None THEN body.mean ELSE Some(0)

\* process_row lines 191-196: the mean seconds extracted from a body.
ExtractMean(body) ==
    IF body.data = "row" THEN body.mean ELSE None

\* retry_delay = min(retry_delay * 2, 120)
NextRetryDelay(d) == Min(d * 2, MaxRetryDelay)

\* lines 271, 274-275
FirstRow(start) ==
    IF TruthyInt(start) /\ start[1] > 2 THEN start[1] ELSE 2

\* lines 272, 277-278
LastRow(end, max_row) ==
    IF TruthyInt(end) /\ end[1] < max_row THEN end[1] ELSE max_row

\* line 285
NoId(id_value) == ~Truthy(id_value)

\* The existence test written as a truthiness test: a stored 0 counts as no
\* value.
MutValueExistsTruthy(existing_value, force) ==
    Truthy(existing_value) /\ ~force

\* The existence test without the force_update exemption.
MutValueExistsIgnoresForce(existing_value, force) ==
    existing_value # NoneCell /\ existing_value # EmptyString

\* line 292
ValueExists(existing_value, force) ==
    existing_value # NoneCell /\ existing_value # EmptyString /\ ~force

\* ------------------------------------------------------------------- state

VARIABLES
    fileExists,     \* os.path.exists(excel_file)
    hasMonthColumn, \* month is in the header row
    hasToken,       \* PAGERDUTY_API_TOKEN is set and non-empty
    mock_api, force_update, start_row, end_row,
    orig,           \* the file's rows when the program started
    stored,         \* the file's rows now
    saves,          \* number of wb.save calls
    sheet,          \* the workbook in memory (<<>> before load_workbook)
    pc,
    first_row, last_row, row,
    retry_count, retry_delay,
    posts,          \* requests.post calls of the current make_api_request
    fetchEnd,       \* how the current make_api_request call ended
    data,           \* the body the current make_api_request call returned
    minutes_value,  \* what process_row returned
    attempt,        \* the latest attempt: its outcome, the Retry-After
                    \* header of a 429, its throttle sleep and the sleep
                    \* that followed the response
    events,         \* sleeps and posts of the current make_api_request
    raised,         \* the exception that left make_api_request
    visited,        \* rows the for loop has taken, in order
    calls,          \* per row: number of process_row calls
    writes,         \* per row: number of assignments to its month cell
    rowLog          \* per row: how the loop body's fetch for it ended

vars == <<fileExists, hasMonthColumn, hasToken, mock_api, force_update,
          start_row, end_row, orig, stored, saves, sheet, pc, first_row,
          last_row, row, retry_count, retry_delay, posts, fetchEnd,
          data, minutes_value, attempt, events, raised, visited, calls,
          writes, rowLog>>

config == <<fileExists, hasMonthColumn, hasToken, mock_api, force_update,
            start_row, end_row, orig>>

fetchVars == <<retry_count, retry_delay, posts, fetchEnd, data, minutes_value,
               attempt, events, raised>>

loopVars == <<first_row, last_row, row, visited, calls, writes, rowLog>>

\* A data row: its id cell, its target-month cell, its name cell (column
\* 1) and the cell of another month column.
RowRecords == [id : IdValues, month : MonthValues, name : {Text},
               other : {Num(250)}]

\* A workbook whose header row has no column for the month has no
\* target-month cells.
NoMonthRecords == [id : IdValues, month : {NoneCell}, name : {Text},
                   other : {Num(250)}]

\* Row 1: the column names; the month's is missing when hasMonth is false.
HeaderRow(hasMonth) ==
    [id |-> Text, month |-> IF hasMonth THEN Text ELSE NoneCell,
     name |-> Text, other |-> Text]

\* The worksheet with header row 1 and the data rows given.
Worksheet(rows, hasMonth) ==
    [r \in 1..MaxRow |-> IF r = 1 THEN HeaderRow(hasMonth) ELSE rows[r]]

\* Workbooks: every combination of cells, run over the default row range.
InitSheets ==
    /\ \E rows \in [Rows -> RowRecords] : orig = Worksheet(rows, TRUE)
    /\ start_row = None
    /\ end_row = None
    /\ hasMonthColumn = TRUE

\* Row ranges: every combination of bounds, over workbooks whose rows all
\* carry an id and the same month value, fetched with the mock response
\* (lines 270-283 resolve the range before, and apart from, any fetch).
InitRanges ==
    /\ \E m \in MonthValues :
         orig = Worksheet([r \in Rows |-> [id |-> Text, month |-> m,
                                           name |-> Text,
                                           other |-> Num(250)]], TRUE)
    /\ start_row \in RowArgs
    /\ end_row \in RowArgs
    /\ hasMonthColumn = TRUE
    /\ mock_api = TRUE

InitNoColumn ==
    /\ \E rows \in [Rows -> NoMonthRecords] : orig = Worksheet(rows, FALSE)
    /\ start_row = None
    /\ end_row = None
    /\ hasMonthColumn = FALSE

\* The state before the first line of fetch_and_update_pagerduty_metrics.
InitState ==
    /\ stored = orig
    /\ saves = 0
    /\ sheet = <<>>
    /\ pc = "start"
    /\ first_row = 0
    /\ last_row = 0
    /\ row = 0
    /\ retry_count = 0
    /\ retry_delay = 0
    /\ posts = 0
    /\ fetchEnd = "none"
    /\ data = NoBody
    /\ minutes_value = None
    /\ attempt = NoAttempt
    /\ events = <<>>
    /\ raised = "none"
    /\ visited = <<>>
    /\ calls = [r \in Rows |-> 0]
    /\ writes = [r \in Rows |-> 0]
    /\ rowLog = [r \in Rows |-> "unvisited"]

Init ==
    /\ fileExists \in BOOLEAN
    /\ hasToken \in BOOLEAN
    /\ mock_api \in BOOLEAN
    /\ force_update \in BOOLEAN
    /\ InitSheets \/ InitRanges \/ InitNoColumn
    /\ InitState

\* Workbooks whose month cells are empty or hold a number, run over the
\* default row range.
InitFilledSheets ==
    /\ \E rows \in [Rows -> [id : IdValues, month : {NoneCell, Num(250)},
                             name : {Text}, other : {Num(250)}]] :
         orig = Worksheet(rows, TRUE)
    /\ start_row = None
    /\ end_row = None
    /\ hasMonthColumn = TRUE

\* The inputs the termination of a run is checked over.
InitLive ==
    /\ fileExists \in BOOLEAN
    /\ hasToken \in BOOLEAN
    /\ mock_api \in BOOLEAN
    /\ force_update \in BOOLEAN
    /\ InitFilledSheets \/ InitRanges \/ InitNoColumn
    /\ InitState

\* ----------------------------------------------------------------- actions

\* lines 231-233
AbortNoFile ==
    /\ pc = "start"
    /\ ~fileExists
    /\ pc' = "aborted"
    /\ UNCHANGED <<config, stored, saves, sheet, fetchVars, loopVars>>

\* lines 236-249: the workbook is loaded, the month is not in the headers
AbortNoColumn ==
    /\ pc = "start"
    /\ fileExists
    /\ ~hasMonthColumn
    /\ sheet' = stored
    /\ pc' = "aborted"
    /\ UNCHANGED <<config, stored, saves, fetchVars, loopVars>>

\* lines 252-255
AbortNoToken ==
    /\ pc = "start"
    /\ fileExists
    /\ hasMonthColumn
    /\ ~hasToken /\ ~mock_api
    /\ sheet' = stored
    /\ pc' = "aborted"
    /\ UNCHANGED <<config, stored, saves, fetchVars, loopVars>>

\* The run started without the credential test.
MutBeginWithoutToken ==
    /\ pc = "start"
    /\ fileExists
    /\ hasMonthColumn
    /\ sheet' = stored
    /\ first_row' = FirstRow(start_row)
    /\ last_row' = LastRow(end_row, MaxRow)
    /\ row' = FirstRow(start_row)
    /\ pc' = "row"
    /\ UNCHANGED <<config, stored, saves, fetchVars, visited, calls, writes,
                   rowLog>>

\* lines 236-283: preconditions pass, the row range is resolved
Begin ==
    /\ pc = "start"
    /\ fileExists
    /\ hasMonthColumn
    /\ hasToken \/ mock_api
    /\ sheet' = stored
    /\ first_row' = FirstRow(start_row)
    /\ last_row' = LastRow(end_row, MaxRow)
    /\ row' = FirstRow(start_row)
    /\ pc' = "row"
    /\ UNCHANGED <<config, stored, saves, fetchVars, visited, calls, writes,
                   rowLog>>

\* lines 283-287: the row has no id
SkipNoId ==
    /\ pc = "row"
    /\ row <= last_row
    /\ NoId(sheet[row].id)
    /\ visited' = Append(visited, row)
    /\ rowLog' = [rowLog EXCEPT ![row] = "skipped"]
    /\ row' = row + 1
    /\ UNCHANGED <<config, stored, saves, sheet, pc, fetchVars, first_row,
                   last_row, calls, writes>>

\* lines 290-294: the month cell has a value and force_update is off
SkipExisting ==
    /\ pc = "row"
    /\ row <= last_row
    /\ ~NoId(sheet[row].id)
    /\ ValueExists(sheet[row].month, force_update)
    /\ visited' = Append(visited, row)
    /\ rowLog' = [rowLog EXCEPT ![row] = "skipped"]
    /\ row' = row + 1
    /\ UNCHANGED <<config, stored, saves, sheet, pc, fetchVars, first_row,
                   last_row, calls, writes>>

\* lines 296-317, 186-188, 76, 89-91: process_row is called and enters
\* make_api_request
CallProcessRow ==
    /\ pc = "row"
    /\ row <= last_row
    /\ ~NoId(sheet[row].id)
    /\ ~ValueExists(sheet[row].month, force_update)
    /\ visited' = Append(visited, row)
    /\ calls' = [calls EXCEPT ![row] = @ + 1]
    /\ retry_count' = 0
    /\ retry_delay' = IF mock_api THEN 0 ELSE InitialRetryDelay
    /\ posts' = 0
    /\ fetchEnd' = "none"
    /\ data' = NoBody
    /\ minutes_value' = None
    /\ attempt' = NoAttempt
    /\ events' = <<>>
    /\ raised' = "none"
    /\ pc' = "fetch"
    /\ UNCHANGED <<config, stored, saves, sheet, first_row, last_row, row,
                   writes, rowLog>>

\* The ceiling taken as exclusive of the succeeding attempt.
MutMayAttemptExclusive(count) == count + 1 < max_retries

\* line 93: the while condition
MayAttempt(count) == count < max_retries

\* lines 129, 141, 153: the ceiling test of the except branches
CeilingReached(count) == count >= max_retries

\* lines 124, 190-200: make_api_request returns a body; process_row
\* extracts the mean seconds, converts them and returns the minutes
Return(status, body) ==
    /\ fetchEnd' = status
    /\ data' = body
    /\ minutes_value' = seconds_to_minutes(ExtractMean(body))
    /\ raised' = "none"
    /\ pc' = "update"

\* Every except branch wrapping what it caught in a new RequestException.
MutExceptionAllWrapped(kind) ==
    CASE kind \in {"timeout", "connection", "http"} -> "wrapped"
      [] kind = "ratelimit" -> "new"
      [] OTHER -> "ValueError"

\* The exception that leaves make_api_request: a new RequestException
\* wrapping the Timeout or ConnectionError (lines 130, 142), the caught
\* RequestException itself (line 155), a new RequestException after the
\* loop (line 164), the ValueError of int() (line 107).
Exception(kind) ==
    CASE kind = "timeout" -> "wrapped"
      [] kind = "connection" -> "wrapped"
      [] kind = "http" -> "original"
      [] kind = "ratelimit" -> "new"
      [] OTHER -> "ValueError"

\* process_row without its except clause: the exception ends the run.
MutRaiseUncaught(kind) ==
    /\ fetchEnd' = kind
    /\ data' = NoBody
    /\ minutes_value' = None
    /\ raised' = Exception(kind)
    /\ pc' = "aborted"

\* lines 202-206: an exception leaves make_api_request; process_row catches
\* it and returns None
Raise(kind) ==
    /\ fetchEnd' = kind
    /\ data' = NoBody
    /\ minutes_value' = None
    /\ raised' = Exception(kind)
    /\ pc' = "update"

\* The mock branch placed after the throttle sleep.
MutMockFetchThrottled ==
    /\ pc = "fetch"
    /\ mock_api
    /\ \E body \in MockBodies : Return("mock", body)
    /\ events' = events \o <<"throttle">>
    /\ UNCHANGED <<config, stored, saves, sheet, loopVars, retry_count,
                   retry_delay, posts, attempt>>

\* lines 76-86, 190-200: the mock response
MockFetch ==
    /\ pc = "fetch"
    /\ mock_api
    /\ \E body \in MockBodies : Return("mock", body)
    /\ UNCHANGED <<config, stored, saves, sheet, loopVars, retry_count,
                   retry_delay, posts, attempt, events>>

\* The request issued without the throttle sleep.
MutRequestUnthrottled == <<"post">>

\* lines 96-102: the throttle sleep, then the request
Request == <<"throttle", "post">>

\* The sleep computed from the delay after its doubling.
MutBackoffWaitsAfterDoubling(kind, d) ==
    IF kind = "timeout" THEN {10 * (NextRetryDelay(d) * 2)}
    ELSE {10 * NextRetryDelay(d) + jitter : jitter \in JitterTenths}

\* lines 133, 145-146, 158-159: the sleeps (tenths of a second) an except
\* branch can take below the ceiling, for retry_delay d
BackoffWaits(kind, d) ==
    IF kind = "timeout" THEN {10 * (d * 2)}
    ELSE {10 * d + jitter : jitter \in JitterTenths}

\* A failed attempt on one of the three except branches (lines 126-162):
\* the counter is incremented; at the ceiling the exception leaves
\* make_api_request, otherwise the loop sleeps, doubles the delay and goes
\* round again.
FailedAttempt(kind) ==
    /\ posts' = posts + 1
    /\ retry_count' = retry_count + 1
    /\ IF CeilingReached(retry_count + 1)
       THEN /\ Raise(kind)
            /\ attempt' = [outcome |-> kind, header |-> "none",
                           throttle |-> Some(delay), wait |-> None]
            /\ events' = events \o Request
            /\ UNCHANGED retry_delay
       ELSE /\ \E w \in BackoffWaits(kind, retry_delay) :
                 attempt' = [outcome |-> kind, header |-> "none",
                             throttle |-> Some(delay), wait |-> Some(w)]
            /\ events' = events \o Request \o <<"wait">>
            /\ retry_delay' = NextRetryDelay(retry_delay)
            /\ UNCHANGED <<fetchEnd, data, minutes_value, raised, pc>>
    /\ UNCHANGED <<config, stored, saves, sheet, loopVars>>

\* lines 93-102, 114-124: a response that raise_for_status lets through
\* (200, or another status below 400); its body is returned
AttemptOk ==
    /\ pc = "fetch"
    /\ ~mock_api
    /\ MayAttempt(retry_count)
    /\ posts' = posts + 1
    /\ \E status \in OkStatuses, body \in Bodies :
         /\ Return(status, body)
         /\ attempt' = [outcome |-> status, header |-> "none",
                        throttle |-> Some(delay), wait |-> None]
    /\ events' = events \o Request
    /\ UNCHANGED <<config, stored, saves, sheet, loopVars, retry_count,
                   retry_delay>>

\* A 429 that does not count as an attempt.
MutAttemptRateLimitedFree ==
    /\ pc = "fetch"
    /\ ~mock_api
    /\ retry_count < max_retries
    /\ posts' = posts + 1
    /\ retry_delay' = IF retry_delay * 2 < MaxRetryDelay
                      THEN retry_delay * 2 ELSE MaxRetryDelay
    /\ attempt' = [outcome |-> "429", header |-> "missing",
                   throttle |-> Some(delay), wait |-> Some(10 * retry_delay)]
    /\ events' = events \o Request \o <<"wait">>
    /\ UNCHANGED <<retry_count, fetchEnd, data, minutes_value, raised, pc>>
    /\ UNCHANGED <<config, stored, saves, sheet, loopVars>>

\* A Retry-After header that is not an integer taken like a missing one:
\* the fetch sleeps retry_delay and goes round again.
MutAttemptRateLimitedFallback ==
    /\ pc = "fetch"
    /\ ~mock_api
    /\ MayAttempt(retry_count)
    /\ posts' = posts + 1
    /\ \E header \in RetryAfterHeaders, seconds \in RetryAfterSeconds :
         attempt' = [outcome |-> "429", header |-> header,
                     throttle |-> Some(delay),
                     wait |-> Some(IF header = "int" THEN 10 * seconds
                                   ELSE 10 * retry_delay)]
    /\ events' = events \o <<"throttle", "post", "wait">>
    /\ retry_delay' = NextRetryDelay(retry_delay)
    /\ retry_count' = retry_count + 1
    /\ UNCHANGED <<fetchEnd, data, minutes_value, raised, pc>>
    /\ UNCHANGED <<config, stored, saves, sheet, loopVars>>

\* line 107: the seconds slept after a 429 (tenths of a second): the
\* Retry-After header's, or retry_delay when there is none
RetryAfterWait(header, seconds, d) ==
    IF header = "int" THEN 10 * seconds ELSE 10 * d

\* lines 93-112: a 429 response. int() of a Retry-After header that is not
\* an integer raises ValueError, which no except branch of make_api_request
\* takes: it leaves make_api_request.
AttemptRateLimited ==
    /\ pc = "fetch"
    /\ ~mock_api
    /\ MayAttempt(retry_count)
    /\ posts' = posts + 1
    /\ \E header \in RetryAfterHeaders, seconds \in RetryAfterSeconds :
         IF header = "text"
         THEN /\ Raise("error")
              /\ attempt' = [outcome |-> "429", header |-> header,
                             throttle |-> Some(delay), wait |-> None]
              /\ events' = events \o Request
              /\ UNCHANGED <<retry_count, retry_delay>>
         ELSE /\ attempt' = [outcome |-> "429", header |-> header,
                             throttle |-> Some(delay),
                             wait |-> Some(RetryAfterWait(header, seconds,
                                                          retry_delay))]
              /\ events' = events \o Request \o <<"wait">>
              /\ retry_delay' = NextRetryDelay(retry_delay)
              /\ retry_count' = retry_count + 1
              /\ UNCHANGED <<fetchEnd, data, minutes_value, raised, pc>>
    /\ UNCHANGED <<config, stored, saves, sheet, loopVars>>

\* lines 93-102, 126-136
AttemptTimeout ==
    /\ pc = "fetch"
    /\ ~mock_api
    /\ MayAttempt(retry_count)
    /\ FailedAttempt("timeout")

\* lines 93-102, 138-149
AttemptConnectionError ==
    /\ pc = "fetch"
    /\ ~mock_api
    /\ MayAttempt(retry_count)
    /\ FailedAttempt("connection")

\* raise_for_status left out: the body of an error response is returned.
MutAttemptHttpErrorReturns ==
    /\ pc = "fetch"
    /\ ~mock_api
    /\ MayAttempt(retry_count)
    /\ posts' = posts + 1
    /\ \E body \in Bodies : Return("http", body)
    /\ attempt' = [outcome |-> "http", header |-> "none",
                   throttle |-> Some(delay), wait |-> None]
    /\ events' = events \o Request
    /\ UNCHANGED <<config, stored, saves, sheet, loopVars, retry_count,
                   retry_delay>>

\* lines 93-102, 114-123, 151-162: a 4xx/5xx status other than 429, raised
\* by raise_for_status, or another RequestException of requests.post
AttemptHttpError ==
    /\ pc = "fetch"
    /\ ~mock_api
    /\ MayAttempt(retry_count)
    /\ FailedAttempt("http")

\* lines 93, 164: the while condition is false (the last attempt was a
\* 429) and make_api_request raises
RetriesExhausted ==
    /\ pc = "fetch"
    /\ ~mock_api
    /\ ~MayAttempt(retry_count)
    /\ Raise("ratelimit")
    /\ UNCHANGED <<config, stored, saves, sheet, loopVars, retry_count,
                   retry_delay, posts, attempt, events>>

\* How a finished fetch is remembered for its row: a body with a mean, a
\* body without one, or an exception.
FetchOutcome ==
    IF data = NoBody THEN "failed"
    ELSE IF ExtractMean(data) = None THEN "novalue"
    ELSE "value"

\* The locals of process_row and make_api_request go out of scope.
EndOfCall ==
    /\ retry_count' = 0
    /\ retry_delay' = 0
    /\ posts' = 0
    /\ fetchEnd' = "none"
    /\ data' = NoBody
    /\ minutes_value' = None
    /\ attempt' = NoAttempt
    /\ events' = <<>>
    /\ raised' = "none"

\* The cell assigned whatever process_row returned: None empties it.
MutUpdateCellClears ==
    /\ pc = "update"
    /\ sheet' = [sheet EXCEPT ![row].month =
                    IF minutes_value # None THEN Num(minutes_value[1])
                    ELSE NoneCell]
    /\ writes' = [writes EXCEPT ![row] = IF minutes_value # None THEN @ + 1 ELSE @]
    /\ rowLog' = [rowLog EXCEPT ![row] = FetchOutcome]
    /\ row' = row + 1
    /\ pc' = "row"
    /\ EndOfCall
    /\ UNCHANGED <<config, stored, saves, first_row, last_row, visited, calls>>

\* The workbook saved after every row.
MutUpdateCellSaves ==
    /\ pc = "update"
    /\ IF minutes_value # None
       THEN /\ sheet' = [sheet EXCEPT ![row].month = Num(minutes_value[1])]
            /\ writes' = [writes EXCEPT ![row] = @ + 1]
       ELSE UNCHANGED <<sheet, writes>>
    /\ stored' = sheet'
    /\ saves' = saves + 1
    /\ rowLog' = [rowLog EXCEPT ![row] = FetchOutcome]
    /\ row' = row + 1
    /\ pc' = "row"
    /\ EndOfCall
    /\ UNCHANGED <<config, first_row, last_row, visited, calls>>

\* The result written one column off the target month's.
MutUpdateCellWrongColumn ==
    /\ pc = "update"
    /\ IF minutes_value # None
       THEN /\ sheet' = [sheet EXCEPT ![row].other = Num(minutes_value[1])]
            /\ writes' = [writes EXCEPT ![row] = @ + 1]
       ELSE UNCHANGED <<sheet, writes>>
    /\ rowLog' = [rowLog EXCEPT ![row] = FetchOutcome]
    /\ row' = row + 1
    /\ pc' = "row"
    /\ EndOfCall
    /\ UNCHANGED <<config, stored, saves, first_row, last_row, visited, calls>>

\* lines 319-334: the result is written to the cell, or the cell is left;
\* the loop goes to the next row
UpdateCell ==
    /\ pc = "update"
    /\ IF minutes_value # None
       THEN /\ sheet' = [sheet EXCEPT ![row].month = Num(minutes_value[1])]
            /\ writes' = [writes EXCEPT ![row] = @ + 1]
       ELSE UNCHANGED <<sheet, writes>>
    /\ rowLog' = [rowLog EXCEPT ![row] = FetchOutcome]
    /\ row' = row + 1
    /\ pc' = "row"
    /\ EndOfCall
    /\ UNCHANGED <<config, stored, saves, first_row, last_row, visited, calls>>

\* lines 283, 337: the range is finished, the workbook is saved
Save ==
    /\ pc = "row"
    /\ row > last_row
    /\ stored' = sheet
    /\ saves' = saves + 1
    /\ pc' = "done"
    /\ UNCHANGED <<config, sheet, fetchVars, loopVars>>

Next ==
    \/ AbortNoFile
    \/ AbortNoColumn
    \/ AbortNoToken
    \/ Begin
    \/ SkipNoId
    \/ SkipExisting
    \/ CallProcessRow
    \/ MockFetch
    \/ AttemptOk
    \/ AttemptRateLimited
    \/ AttemptTimeout
    \/ AttemptConnectionError
    \/ AttemptHttpError
    \/ RetriesExhausted
    \/ UpdateCell
    \/ Save

Spec == Init /\ [][Next]_vars

\* The program is one sequential thread: a step that can be taken is taken.
FairSpec == InitLive /\ [][Next]_vars /\ WF_vars(Next)

\* ------------------------------------------------------------------ claims

\* The row's fetch is running or its result is not yet handled.
InFlight(r) == pc \in {"fetch", "update"} /\ row = r

\* None or "": what line 292 takes for no value.
NoExisting(c) == c = NoneCell \/ c = EmptyString

\* The rows first..last in ascending order.
Ascending(first, last) ==
    IF last < first THEN <<>> ELSE [i \in 1..(last - first + 1) |-> first + i - 1]

\* The for loop has finished the body for row r.
Passed(r) ==
    /\ pc \in {"row", "fetch", "update", "done"}
    /\ first_row <= r
    /\ r < row

\* C1: across the run a row's target-month cell is assigned (once) if and
\* only if (force_update is set or the cell held None or "") and the row's
\* fetch returned a body with a numeric mean; a row whose fetch failed or
\* returned no value still holds its prior value, in memory and in the file.
C1_OverwritePolicy ==
    sheet # <<>> =>
      \A r \in Rows :
        /\ writes[r] <= 1
        /\ InFlight(r) => writes[r] = 0
        /\ ~InFlight(r) =>
             (writes[r] = 1 <=>
                /\ force_update \/ NoExisting(orig[r].month)
                /\ rowLog[r] = "value")
        /\ writes[r] = 1 => sheet[r].month.kind = "num"
        /\ writes[r] = 0 => sheet[r].month = orig[r].month
        /\ rowLog[r] \in {"failed", "novalue"} =>
             /\ sheet[r].month = orig[r].month
             /\ stored[r].month = orig[r].month

\* A forced run is over: one row with a value was overwritten, another row
\* with a value had a failed fetch and kept it.
C1_Witness ==
    /\ pc = "done"
    /\ force_update
    /\ \E r1, r2 \in Rows :
         /\ orig[r1].month = Num(250) /\ writes[r1] = 1
         /\ stored[r1].month # orig[r1].month
         /\ orig[r2].month = Num(250) /\ rowLog[r2] = "failed"
         /\ stored[r2].month = Num(250)

\* C2: a row whose id cell is empty, or whose month cell holds anything but
\* None or "" (0 included) while force_update is off, never has process_row
\* called, never has a fetch running, and keeps its cells.
C2_SkipPolicy ==
    \A r \in Rows :
      (NoId(orig[r].id) \/ (~NoExisting(orig[r].month) /\ ~force_update)) =>
        /\ calls[r] = 0
        /\ ~InFlight(r)
        /\ writes[r] = 0
        /\ rowLog[r] \in {"unvisited", "skipped"}
        /\ stored[r] = orig[r]
        /\ sheet # <<>> => sheet[r] = orig[r]

\* A run without force_update is over: a row holding 0 was visited and
\* skipped while another row was fetched.
C2_Witness ==
    /\ pc = "done"
    /\ ~force_update
    /\ \E r1, r2 \in Rows :
         /\ Truthy(orig[r1].id) /\ orig[r1].month = Num(0)
         /\ rowLog[r1] = "skipped" /\ calls[r1] = 0
         /\ calls[r2] = 1

\* C3: with force_update set, every row of the processed range with an id
\* has process_row (and so make_api_request) called exactly once, whatever
\* its month cell holds; no row has it called twice.
C3_ForceFetchesOnce ==
    force_update =>
      /\ \A r \in Rows : calls[r] <= 1
      /\ \A r \in Rows : (Passed(r) /\ Truthy(orig[r].id)) => calls[r] = 1
      /\ pc = "done" => \A r \in Rows :
           (first_row <= r /\ r <= last_row /\ Truthy(orig[r].id)) => calls[r] = 1

\* A forced run is over and a row that already held a value was fetched.
C3_Witness ==
    /\ pc = "done"
    /\ force_update
    /\ \E r \in Rows : orig[r].month = Num(250) /\ calls[r] = 1

\* C4: one make_api_request call issues at most 7 requests, whatever the
\* attempts' outcomes.
C4_RetryCeiling == posts <= 7

\* A fetch that used all 7 requests, the last ones rate limited.
C4_Witness ==
    /\ pc = "update"
    /\ posts = 7
    /\ fetchEnd = "ratelimit"

\* C5: after k <= 6 failed attempts the next request is still issued, and a
\* fetch that ends with a 200 has issued exactly one request more than it
\* had failures (at most 7), returns that body, and process_row returns its
\* mean converted to minutes (rounded to the nearest hundredth).
C5_CeilingInclusive ==
    /\ (pc = "fetch" /\ ~mock_api /\ posts < 7) => ENABLED AttemptOk
    /\ (pc = "update" /\ fetchEnd = "200") =>
         /\ posts = retry_count + 1
         /\ posts \in 1..7
         /\ data \in Bodies
         /\ IF data.data = "row" /\ data.mean # None
            THEN /\ minutes_value # None
                 /\ 60 * minutes_value[1] - 100 * data.mean[1] \in -30..30
            ELSE minutes_value = None

\* Six failed attempts, then a 200 on the seventh whose value is returned.
C5_Witness ==
    /\ pc = "update"
    /\ fetchEnd = "200"
    /\ retry_count = 6
    /\ posts = 7
    /\ data.mean = Some(100)
    /\ minutes_value = Some(167)

\* C6: when a row's fetch ends without a successful response, exactly 7
\* requests were issued, process_row returns None, and the row's cell keeps
\* its prior value.
C6_AlwaysFailingSevenAttempts ==
    /\ (pc = "update" /\ data = NoBody) =>
         /\ posts = 7
         /\ minutes_value = None
    /\ \A r \in Rows : rowLog[r] = "failed" => stored[r] = orig[r]

\* The run-level facts behind C7: a failed fetch gives None, a finished run
\* has taken every row of its range and saved, and only a precondition
\* aborts a run.
RecoveryBoundary ==
    /\ (pc = "update" /\ data = NoBody) => minutes_value = None
    /\ pc = "done" => (saves = 1 /\ visited = Ascending(first_row, last_row))
    /\ pc = "aborted" => (visited = <<>> /\ \A r \in Rows : calls[r] = 0)

\* C7: once the preconditions have passed, whatever the fetches do, a failed
\* fetch is an absent result for its row, the later rows are still taken and
\* the run reaches the save.
C7_RowRecovery ==
    /\ []RecoveryBoundary
    /\ (pc = "row") ~> (pc = "done")

\* A run is over in which a row's fetch failed and a later row was written.
C7_Witness ==
    /\ pc = "done"
    /\ \E r1, r2 \in Rows :
         /\ r1 < r2
         /\ rowLog[r1] = "failed"
         /\ rowLog[r2] = "value" /\ writes[r2] = 1

\* C8: the workbook is saved once, after the last row of the range; until
\* then the file is what it was at the start.
C8_PersistOnce ==
    /\ saves <= 1
    /\ saves = 1 <=> pc = "done"
    /\ pc # "done" => stored = orig
    /\ pc = "done" =>
         /\ stored = sheet
         /\ row > last_row
         /\ visited = Ascending(first_row, last_row)

\* A run is over, two rows were written and the file changed.
C8_Witness ==
    /\ pc = "done"
    /\ saves = 1
    /\ stored # orig
    /\ \E r1, r2 \in Rows : r1 # r2 /\ writes[r1] = 1 /\ writes[r2] = 1

\* A run-level precondition fails.
PreconditionFails ==
    \/ ~fileExists
    \/ ~hasMonthColumn
    \/ ~hasToken /\ ~mock_api

\* C9: when the file is missing, the month column is absent, or the token is
\* missing outside mock mode, no row is taken, nothing is fetched, no cell is
\* assigned and the file is not saved; otherwise (a missing token in mock
\* mode included) the run is not aborted.
C9_PreconditionAbort ==
    /\ PreconditionFails =>
         /\ pc \in {"start", "aborted"}
         /\ visited = <<>>
         /\ posts = 0
         /\ \A r \in Rows : calls[r] = 0 /\ writes[r] = 0
         /\ saves = 0
         /\ stored = orig
         /\ sheet = <<>> \/ sheet = orig
    /\ ~PreconditionFails => pc # "aborted"

\* A run aborted for the missing token alone, the file as it was.
C9_Witness ==
    /\ pc = "aborted"
    /\ fileExists /\ hasMonthColumn
    /\ ~hasToken /\ ~mock_api
    /\ sheet = orig
    /\ stored = orig
    /\ \E r \in Rows : Truthy(orig[r].id) /\ NoExisting(orig[r].month)

\* The claimed bounds of the range: an absent bound is no constraint.
ClaimedFirst == IF start_row = None THEN 2
                ELSE IF start_row[1] > 2 THEN start_row[1] ELSE 2

ClaimedLast == IF end_row = None THEN MaxRow
               ELSE IF end_row[1] < MaxRow THEN end_row[1] ELSE MaxRow

\* C10: the rows visited are exactly max(2, start_row)..min(max_row,
\* end_row), in ascending order, each once; no other row is fetched or
\* assigned.
C10_RowRange ==
    /\ pc = "done" => visited = Ascending(ClaimedFirst, ClaimedLast)
    /\ \A r \in Rows :
         (r < ClaimedFirst \/ r > ClaimedLast) =>
            calls[r] = 0 /\ writes[r] = 0 /\ ~InFlight(r)

\* The backoff after k failed attempts of a call, in seconds: 3 doubled k
\* times, never above 120.
Backoff(k) ==
    CASE k = 0 -> 3
      [] k = 1 -> 6
      [] k = 2 -> 12
      [] k = 3 -> 24
      [] k = 4 -> 48
      [] k = 5 -> 96
      [] OTHER -> 120

\* The latest event of the current call.
LastEvent == IF events = <<>> THEN "none" ELSE events[Len(events)]

\* C11: in mock mode a fetch posts nothing, sleeps nothing and raises
\* nothing; it returns a mean within 120..7200 and a count within 5..20, so
\* process_row returns a number and every row process_row was called for is
\* written.
C11_MockFetch ==
    mock_api =>
      /\ posts = 0
      /\ events = <<>>
      /\ attempt = NoAttempt
      /\ raised = "none"
      /\ fetchEnd \in {"none", "mock"}
      /\ pc = "update" =>
           /\ fetchEnd = "mock"
           /\ data.data = "row"
           /\ data.mean # None /\ data.mean[1] \in 120..7200
           /\ data.count # None /\ data.count[1] \in 5..20
           /\ minutes_value # None /\ minutes_value[1] \in 200..12000
      /\ \A r \in Rows :
           (calls[r] = 1 /\ ~InFlight(r)) =>
              /\ writes[r] = 1
              /\ rowLog[r] = "value"
              /\ sheet[r].month.kind = "num"
              /\ sheet[r].month.num \in 200..12000

\* A mock run is over: a row was written with 120.00 minutes (7200 s).
C11_Witness ==
    /\ pc = "done"
    /\ mock_api
    /\ \E r \in Rows :
         /\ calls[r] = 1 /\ writes[r] = 1
         /\ stored[r].month = Num(12000)

\* C12: after every 429 the fetcher has slept the Retry-After seconds, or
\* the backoff before doubling when the header is missing, has doubled the
\* backoff (capped at 120), has incremented the counter, and goes on to
\* another request while the counter is below 7.
C12_RateLimitHandling ==
    attempt.outcome = "429" =>
      /\ LastEvent = "wait"
      /\ attempt.wait # None
      /\ retry_count = posts
      /\ attempt.wait[1] = IF attempt.header = "int" THEN 300
                           ELSE 10 * Backoff(retry_count - 1)
      /\ retry_delay = Backoff(retry_count)
      /\ pc = "fetch" \/ (pc = "update" /\ retry_count = 7)
      /\ (pc = "fetch" /\ retry_count < 7) => ENABLED AttemptOk

NoMetric(body) == body.data \in {"missing", "empty"} \/ body.mean = None

\* C14: a returned body without a usable metric is no error: the fetch ended
\* with that request (nothing raised, no sleep after it), process_row
\* returns None, and the row's cells stay as they were.
C14_NoMetricNoUpdate ==
    /\ (pc = "update" /\ data # NoBody /\ NoMetric(data)) =>
         /\ minutes_value = None
         /\ raised = "none"
         /\ LastEvent = "post"
         /\ attempt.wait = None
         /\ posts = retry_count + 1
         /\ sheet[row] = orig[row]
    /\ \A r \in Rows :
         rowLog[r] = "novalue" =>
           /\ writes[r] = 0
           /\ sheet[r] = orig[r]
           /\ stored[r] = orig[r]

\* A forced run is over: a row with a value got a body without a metric and
\* kept its value.
C14_Witness ==
    /\ pc = "done"
    /\ force_update
    /\ \E r \in Rows :
         /\ rowLog[r] = "novalue"
         /\ orig[r].month = Num(250)
         /\ stored[r].month = Num(250)

\* C15: in a non-mock fetch the counter is within 0..7 and the backoff is
\* one of 3, 6, 12, 24, 48, 96, 120; the counter is the number of attempts
\* made that did not end the fetch with a returned body (a response that
\* raise_for_status lets through is counted with the 200s); the backoff is
\* 3 doubled once per failed attempt, capped; a new call starts at 0 and 3.
C15_RetryState ==
    (pc \in {"fetch", "update"} /\ ~mock_api) =>
      /\ retry_count \in 0..7
      /\ retry_delay \in {3, 6, 12, 24, 48, 96, 120}
      /\ retry_count = posts - (IF data # NoBody THEN 1 ELSE 0)
      /\ retry_delay = Backoff(retry_count)
      /\ posts = 0 => (retry_count = 0 /\ retry_delay = 3)

\* The seconds slept after the c-th failed attempt when it timed out.
TimeoutWait(c) == <<6, 12, 24, 48, 96, 192>>[c]

\* C16: after a timeout the counter has been incremented; at 7 the fetch
\* has ended with the wrapping RequestException and no sleep; below 7 the
\* fetcher has slept twice the backoff it had before doubling (6, 12, 24,
\* 48, 96, 192 s after the 1st..6th failure) and the backoff is doubled,
\* capped at 120.
C16_TimeoutTransition ==
    attempt.outcome = "timeout" =>
      /\ retry_count = posts
      /\ retry_count \in 1..7
      /\ IF retry_count = 7
         THEN /\ pc = "update"
              /\ fetchEnd = "timeout"
              /\ raised = "wrapped"
              /\ attempt.wait = None
              /\ LastEvent = "post"
              /\ minutes_value = None
         ELSE /\ pc = "fetch"
              /\ LastEvent = "wait"
              /\ attempt.wait = Some(10 * TimeoutWait(retry_count))
              /\ retry_delay = Backoff(retry_count)

\* The sixth attempt timed out: 192 s were slept and the backoff is 120.
C16_Witness ==
    /\ pc = "fetch"
    /\ attempt.outcome = "timeout"
    /\ retry_count = 6
    /\ attempt.wait = Some(1920)
    /\ retry_delay = 120

\* A seventh timeout ended the fetch.
C16_CeilingWitness ==
    /\ pc = "update"
    /\ attempt.outcome = "timeout"
    /\ posts = 7

\* C17: after a connection failure or an HTTP error the counter has been
\* incremented; at 7 the fetch has ended without a sleep, a connection
\* failure with the wrapping RequestException and an HTTP error with the
\* caught exception itself; below 7 the fetcher has slept between the
\* backoff it had before doubling and that plus 2 s, and the backoff is
\* doubled, capped at 120.
C17_ConnectionAndHttpTransition ==
    attempt.outcome \in {"connection", "http"} =>
      /\ retry_count = posts
      /\ retry_count \in 1..7
      /\ IF retry_count = 7
         THEN /\ pc = "update"
              /\ fetchEnd = attempt.outcome
              /\ raised = (IF attempt.outcome = "connection" THEN "wrapped"
                           ELSE "original")
              /\ attempt.wait = None
              /\ LastEvent = "post"
              /\ minutes_value = None
         ELSE /\ pc = "fetch"
              /\ LastEvent = "wait"
              /\ attempt.wait # None
              /\ attempt.wait[1] >= 10 * Backoff(retry_count - 1)
              /\ attempt.wait[1] <= 10 * Backoff(retry_count - 1) + 20
              /\ retry_delay = Backoff(retry_count)

\* A seventh attempt got an HTTP error: the fetch ended with the original
\* exception, after six retries.
C17_Witness ==
    /\ pc = "update"
    /\ attempt.outcome = "http"
    /\ raised = "original"
    /\ posts = 7
    /\ Len(events) > 14

\* The number of requests in a log of sleeps and requests.
RECURSIVE Posts(_)
Posts(log) ==
    IF log = <<>> THEN 0
    ELSE (IF Head(log) = "post" THEN 1 ELSE 0) + Posts(Tail(log))

\* C18: in a non-mock fetch every request comes right after a throttle
\* sleep of delay seconds and every throttle sleep is followed by its
\* request; the rate-limit or backoff sleep of a failed attempt comes
\* before the next attempt's throttle sleep, not instead of it.
C18_ThrottleOrdering ==
    ~mock_api =>
      /\ Posts(events) = posts
      /\ attempt # NoAttempt => attempt.throttle = Some(delay)
      /\ posts > 0 => attempt # NoAttempt
      /\ \A i \in 1..Len(events) :
           /\ events[i] = "post" => (i > 1 /\ events[i - 1] = "throttle")
           /\ events[i] = "throttle" =>
                (i < Len(events) /\ events[i + 1] = "post")
           /\ events[i] = "wait" =>
                /\ i > 1 /\ events[i - 1] = "post"
                /\ i < Len(events) => events[i + 1] = "throttle"

\* A second attempt was made after a failed first: throttle, request,
\* backoff sleep, throttle, request.
C18_Witness ==
    /\ ~mock_api
    /\ posts = 2
    /\ attempt.outcome = "200"
    /\ events = <<"throttle", "post", "wait", "throttle", "post">>

\* C19: the worksheet keeps its rows; the header row and every cell but
\* the target month's are as they were loaded; a target-month cell differs
\* only in a row of the range that process_row was called for and returned
\* a number for. The same holds for what is on disk.
C19_Frame ==
    /\ DOMAIN stored = DOMAIN orig
    /\ stored[1] = orig[1]
    /\ sheet # <<>> =>
         /\ DOMAIN sheet = DOMAIN orig
         /\ sheet[1] = orig[1]
    /\ \A r \in Rows :
         /\ (sheet # <<>> /\ sheet[r] # orig[r]) =>
              /\ sheet[r] = [orig[r] EXCEPT !.month = sheet[r].month]
              /\ calls[r] = 1
              /\ writes[r] = 1
              /\ rowLog[r] = "value"
              /\ r \in first_row..last_row
         /\ stored[r] # orig[r] =>
              /\ stored[r] = sheet[r]
              /\ pc = "done"
         /\ (sheet # <<>> /\ (calls[r] = 0 \/ rowLog[r] # "value")) =>
              sheet[r] = orig[r]

\* A run over a narrowed range is over: a row of the range has a new
\* value on disk, a row outside it is as it was.
C19_Witness ==
    /\ pc = "done"
    /\ \E r, q \in Rows :
         /\ writes[r] = 1
         /\ stored[r].month # orig[r].month
         /\ stored[r].id = orig[r].id
         /\ ~(q \in first_row..last_row)
         /\ stored[q] = orig[q]

\* C20: a 429 whose Retry-After header int() cannot read ends the fetch at
\* that attempt: nothing is slept after the request, the counter is not
\* incremented and is below 7, the ValueError reaches process_row, which
\* returns None, and the row's cells stay as they were.
C20_UnreadableRetryAfterEndsFetch ==
    /\ attempt.header = "text" =>
         /\ pc = "update"
         /\ fetchEnd = "error"
         /\ raised = "ValueError"
         /\ attempt.wait = None
         /\ LastEvent = "post"
         /\ retry_count < max_retries
         /\ posts = retry_count + 1
         /\ data = NoBody
         /\ minutes_value = None
         /\ sheet[row] = orig[row]
         /\ ~ENABLED AttemptOk
    /\ fetchEnd = "error" => attempt.header = "text"
    /\ \A r \in Rows :
         rowLog[r] = "failed" =>
           /\ writes[r] = 0
           /\ sheet[r] = orig[r]

\* The third attempt of a fetch got a 429 with an unreadable header, in a
\* row that holds a value.
C20_Witness ==
    /\ pc = "update"
    /\ attempt.header = "text"
    /\ posts = 3
    /\ retry_count = 2
    /\ orig[row].month = Num(250)

====
